---------------------------- MODULE Spec2Model ----------------------------
(***************************************************************************)
(* Aho-Corasick / Ken Steele matcher (type ACKS of package ahocorasick).   *)
(*                                                                         *)
(* The automaton's fields are the variables; AddPattern and Build are one  *)
(* action each; a Search/Scan call is a local activation record that is    *)
(* started by SearchBegin/ScanBegin and advanced one text byte at a time   *)
(* by SearchStep, so that calls on one automaton can be interleaved.       *)
(*                                                                         *)
(* Go slices are modelled as sequences: slice index i is sequence index    *)
(* i + 1.  States, symbols and pattern indices keep the code's 0-based     *)
(* numbering.                                                              *)
(***************************************************************************)
EXTENDS Integers, Sequences, FiniteSets, TLC

VARIABLES patterns, translateTable, alphabetSize, stateTable, outputTable,
          size, maxID, stateCount, hasSingleMatch, calls, built, addRet,
          passed

acVars == <<patterns, translateTable, alphabetSize, stateTable, outputTable,
            size, maxID, stateCount, hasSingleMatch>>
vars == <<patterns, translateTable, alphabetSize, stateTable, outputTable,
          size, maxID, stateCount, hasSingleMatch, calls, built, addRet,
          passed>>

(***************************************************************************)
(* Bounds of the model.                                                    *)
(***************************************************************************)
\* MaxTrieBytes bounds the bytes of all registered patterns together (the
\* trie has at most MaxTrieBytes + 1 states), MaxPatBytes the same for the
\* clients that go on to search, MaxTextLen the length of a text.
MaxTrieBytes == 6
MaxPatBytes == 3
MaxTextLen == 3

(***************************************************************************)
(* Program constants.                                                      *)
(***************************************************************************)
Caseless == 1
SingleMatch == 2
maxSliceSize == 16777216
ByteRange == 256
WordBits == 64
UpperA == 65
UpperZ == 90
CaseGap == 32

Byte == 0 .. (ByteRange - 1)

\* Go's zero-based indexing of a slice held as a sequence.
At(s, i) == s[i + 1]

\* p.Flags & f > 0 for a single-bit flag f.
HasFlag(flags, f) == (flags \div f) % 2 = 1

\* uint8(n)
U8(n) == n % ByteRange

toLower(b) ==
    IF b >= UpperA /\ b <= UpperZ THEN U8(b + CaseGap) ELSE b

\* A comparison that only checks the lengths.
memcmpLengthOnly(a, b, l) == ~(l > Len(b) \/ l > Len(a))

memcmp(a, b, l) ==
    IF l > Len(b) \/ l > Len(a)
    THEN FALSE
    ELSE SubSeq(a, 1, l) = SubSeq(b, 1, l)

(***************************************************************************)
(* initTranslateTable                                                      *)
(***************************************************************************)
\* counts[c] > 0 after the counting loop: some pattern byte folds to c.
Counted(pats, c) ==
    \E k \in 1 .. Len(pats) :
        \E j \in 1 .. Len(pats[k].Content) : toLower(pats[k].Content[j]) = c

\* The indices i with counts[i] > 0.
CountedBytes(pats) ==
    UNION {{toLower(pats[k].Content[j]) : j \in 1 .. Len(pats[k].Content)} :
             k \in 1 .. Len(pats)}

\* The loop "for i := 0; i < 256; i++" on acc = [tt, size].  An index that
\* is an uppercase letter is skipped and an index with counts[i] = 0 only
\* clears its entry, so the loop is run over the remaining indices, S, in
\* increasing order, the cleared entries being set beforehand.
IsUpper(i) == i >= UpperA /\ i <= UpperZ

Min(S) == CHOOSE x \in S : \A y \in S : x <= y

RECURSIVE TranslateLoop(_, _)
TranslateLoop(S, acc) ==
    IF S = {} THEN acc
    ELSE LET i == Min(S)
         IN  TranslateLoop(S \ {i},
                 [tt |-> [acc.tt EXCEPT ![i] = U8(acc.size)],
                  size |-> acc.size + 1])

\* A step 3 that leaves the uppercase entries as they were.
MapUpperSkip(tt) == tt

\* Step 3: uppercase letters take the index of their lowercase letter.
MapUpper(tt) ==
    [b \in Byte |-> IF IsUpper(b) THEN tt[b + CaseGap] ELSE tt[b]]

\* A table whose symbols start at 0.
initTranslateTableNoReserve(pats, tt0) ==
    LET used == {i \in CountedBytes(pats) : ~IsUpper(i)}
        r == TranslateLoop(used,
                 [tt |-> [i \in Byte |-> IF IsUpper(i) THEN tt0[i] ELSE 0],
                  size |-> 0])
    IN  [tt |-> MapUpper(r.tt), size |-> r.size]

initTranslateTable(pats, tt0) ==
    LET used == {i \in CountedBytes(pats) : ~IsUpper(i)}
        r == TranslateLoop(used,
                 [tt |-> [i \in Byte |-> IF IsUpper(i) THEN tt0[i] ELSE 0],
                  size |-> 1])
    IN  [tt |-> MapUpper(r.tt), size |-> r.size]

(***************************************************************************)
(* buildStateMachine, part 1: the trie (goto function).                    *)
(* trie is map[int]map[uint8]int: a function whose domain is the set of    *)
(* states that own an edge map.                                            *)
(***************************************************************************)
EmptyMap == [c \in {} |-> 0]

MapPut(m, k, v) == [x \in (DOMAIN m) \cup {k} |-> IF x = k THEN v ELSE m[x]]

HasEdge(trie, s, c) == s \in DOMAIN trie /\ c \in DOMAIN trie[s]

\* append(outputTable[s], ids...)
OutAppend(out, s, ids) == [out EXCEPT ![s + 1] = @ \o ids]

\* One iteration of "for _, b := range p.Content" on bs = [trie, stateCount,
\* outputTable, cur].
TrieStep(bs, tc) ==
    LET t1 == IF bs.cur \in DOMAIN bs.trie THEN bs.trie
              ELSE MapPut(bs.trie, bs.cur, EmptyMap)
    IN  IF tc \in DOMAIN t1[bs.cur]
        THEN [bs EXCEPT !.trie = t1, !.cur = t1[bs.cur][tc]]
        ELSE [trie |-> MapPut(t1, bs.cur, MapPut(t1[bs.cur], tc, bs.stateCount)),
              stateCount |-> bs.stateCount + 1,
              outputTable |-> Append(bs.outputTable, <<>>),
              cur |-> bs.stateCount]

RECURSIVE ContentLoop(_, _, _, _)
ContentLoop(content, j, tt, bs) ==
    IF j > Len(content) THEN bs
    ELSE ContentLoop(content, j + 1, tt, TrieStep(bs, tt[toLower(content[j])]))

\* "for k, p := range ac.patterns": k is the 0-based pattern index.
RECURSIVE PatternLoop(_, _, _, _)
PatternLoop(pats, k, tt, bs) ==
    IF k >= Len(pats) THEN bs
    ELSE LET w == ContentLoop(At(pats, k).Content, 1, tt, [bs EXCEPT !.cur = 0])
         IN  PatternLoop(pats, k + 1, tt,
                 [w EXCEPT !.outputTable = OutAppend(w.outputTable, w.cur, <<k>>)])

BuildTrie(pats, tt) ==
    PatternLoop(pats, 0, tt,
        [trie |-> EmptyMap, stateCount |-> 1, outputTable |-> <<<<>>>>, cur |-> 0])

(***************************************************************************)
(* buildStateMachine, part 2: failure links, breadth first.                *)
(* Go leaves the order of "range" over a map unspecified: ord gives, for   *)
(* every state with two or more edges, the order its edges are visited in. *)
(* log is the history of the loops: which state was enqueued, dequeued,    *)
(* given its failure link f, or had the output set of f, as read then,     *)
(* appended to its own.                                                    *)
(***************************************************************************)
Entry(op, s, f, read) == [op |-> op, s |-> s, f |-> f, read |-> read]

AllKeys(trie) == UNION {DOMAIN trie[s] : s \in DOMAIN trie}

Perms(S) ==
    {p \in [1 .. Cardinality(S) -> S] :
        \A i, j \in 1 .. Cardinality(S) : i # j => p[i] # p[j]}

BranchStates(trie) == {s \in DOMAIN trie : Cardinality(DOMAIN trie[s]) >= 2}

Orders(trie) == [BranchStates(trie) -> Perms(AllKeys(trie))]

\* The keys of trie[s] in the order the range loop visits them.
RangeKeys(trie, ord, s) ==
    IF s \notin DOMAIN trie THEN <<>>
    ELSE LET p == IF s \in DOMAIN ord THEN ord[s]
                  ELSE CHOOSE q \in Perms(AllKeys(trie)) : TRUE
         IN  SelectSeq(p, LAMBDA c : c \in DOMAIN trie[s])

\* The inner "for" that walks the failure chain from fState looking for an
\* edge on c.
RECURSIVE FailWalk(_, _, _, _)
FailWalk(trie, failure, fState, c) ==
    IF HasEdge(trie, fState, c) THEN trie[fState][c]
    ELSE IF fState = 0 THEN 0
    ELSE FailWalk(trie, failure, At(failure, fState), c)

\* Depth 1: "for _, nextState := range rootTrans".
RECURSIVE RootLoop(_, _, _, _)
RootLoop(trie, keys, j, st) ==
    IF j > Len(keys) THEN st
    ELSE LET nextState == trie[0][keys[j]]
         IN  RootLoop(trie, keys, j + 1,
                 [st EXCEPT !.queue = Append(@, nextState),
                            !.failure = [@ EXCEPT ![nextState + 1] = 0],
                            !.log = @ \o <<Entry("enqueue", nextState, 0, <<>>),
                                           Entry("link", nextState, 0, <<>>)>>])

\* A merge that drops what the failure state passes on.
MergeNothing(out, nextState, f) == out

\* "Merge outputs": outputTable[nextState] gets outputTable[f] appended.
Merge(out, nextState, f) == OutAppend(out, nextState, At(out, f))

\* "for charCode, nextState := range transitions" of the dequeued rState.
RECURSIVE EdgeLoop(_, _, _, _, _)
EdgeLoop(trie, keys, j, rState, st) ==
    IF j > Len(keys) THEN st
    ELSE LET charCode == keys[j]
             nextState == trie[rState][charCode]
             f == FailWalk(trie, st.failure, At(st.failure, rState), charCode)
         IN  EdgeLoop(trie, keys, j + 1, rState,
                 [queue |-> Append(st.queue, nextState),
                  failure |-> [st.failure EXCEPT ![nextState + 1] = f],
                  out |-> Merge(st.out, nextState, f),
                  log |-> st.log \o <<Entry("enqueue", nextState, 0, <<>>),
                                     Entry("link", nextState, f, <<>>),
                                     Entry("merge", nextState, f, At(st.out, f))>>])

\* A loop that takes the state enqueued last (depth first).
RECURSIVE BFSLoopStack(_, _, _)
BFSLoopStack(trie, ord, st) ==
    IF Len(st.queue) = 0 THEN st
    ELSE LET rState == st.queue[Len(st.queue)]
         IN  BFSLoopStack(trie, ord,
                 EdgeLoop(trie, RangeKeys(trie, ord, rState), 1, rState,
                          [st EXCEPT !.queue = SubSeq(@, 1, Len(@) - 1),
                                     !.log = Append(@, Entry("dequeue", rState, 0, <<>>))]))

\* "for len(queue) > 0".
RECURSIVE BFSLoop(_, _, _)
BFSLoop(trie, ord, st) ==
    IF Len(st.queue) = 0 THEN st
    ELSE LET rState == Head(st.queue)
         IN  BFSLoop(trie, ord,
                 EdgeLoop(trie, RangeKeys(trie, ord, rState), 1, rState,
                          [st EXCEPT !.queue = Tail(@),
                                     !.log = Append(@, Entry("dequeue", rState, 0, <<>>))]))

BuildFailure(trie, n, out, ord) ==
    BFSLoop(trie, ord,
        RootLoop(trie, RangeKeys(trie, ord, 0), 1,
                 [queue |-> <<>>, failure |-> [s \in 1 .. n |-> 0], out |-> out,
                  log |-> <<>>]))

(***************************************************************************)
(* buildStateMachine, part 3: the dense delta table.                       *)
(***************************************************************************)
\* A walk that gives up at the first state without an edge on c.
DeltaWalkNoFail(trie, failure, curr, c) ==
    IF HasEdge(trie, curr, c) THEN trie[curr][c] ELSE 0

RECURSIVE DeltaWalk(_, _, _, _)
DeltaWalk(trie, failure, curr, c) ==
    IF HasEdge(trie, curr, c) THEN trie[curr][c]
    ELSE IF curr = 0 THEN 0
    ELSE DeltaWalk(trie, failure, At(failure, curr), c)

\* A table that lacks its last entry.
BuildDeltaShort(trie, failure, n, asz) ==
    [idx \in 1 .. (n * asz - 1) |->
        DeltaWalk(trie, failure, (idx - 1) \div asz, U8((idx - 1) % asz))]

BuildDelta(trie, failure, n, asz) ==
    [idx \in 1 .. (n * asz) |->
        DeltaWalk(trie, failure, (idx - 1) \div asz, U8((idx - 1) % asz))]

\* The fields Build leaves behind, for one visiting order ord.
buildStateMachine(pats, tt, asz, ord) ==
    LET t == BuildTrie(pats, tt)
        f == BuildFailure(t.trie, t.stateCount, t.outputTable, ord)
    IN  [stateCount |-> t.stateCount,
         outputTable |-> f.out,
         stateTable |-> BuildDelta(t.trie, f.failure, t.stateCount, asz),
         trie |-> t.trie,
         failure |-> f.failure,
         log |-> f.log]

\* The trie alone decides which visiting orders exist.
BuildOrders(pats, tt) == Orders(BuildTrie(pats, tt).trie)

(***************************************************************************)
(* Search, Scan and searchPatterns.                                        *)
(* A call's locals form a record; the callback's verdicts are an oracle    *)
(* orc = [n, e]: the n-th callback invocation of the current byte returns  *)
(* the error e (n = 0: none fails).                                        *)
(***************************************************************************)
Nil == "nil"
Errors == {"E1", "E2"}

IdleCall ==
    [status |-> "idle", kind |-> "none", text |-> <<>>, i |-> 0,
     currentState |-> 0, useSlice |-> FALSE, recordSlice |-> <<>>,
     recordMap |-> [isNil |-> TRUE, keys |-> {}], matches |-> <<>>,
     cb |-> <<>>, ev |-> <<>>, err |-> Nil, result |-> <<>>, resultNil |-> TRUE]

\* A closure that keeps each id once.
SearchHandlerDistinct(ls, pos, pat, orc) ==
    [ls EXCEPT !.matches = IF \E j \in 1 .. Len(@) : @[j] = pat.ID THEN @
                           ELSE Append(@, pat.ID),
               !.ret = Nil]

\* The closure h of Search: records the id, never fails.
SearchHandler(ls, pos, pat, orc) ==
    [ls EXCEPT !.matches = Append(@, pat.ID), !.ret = Nil]

\* A closure that calls m and drops its error.
ScanHandlerDropsError(ls, pos, pat, orc) ==
    LET r == IF ls.ncb + 1 = orc.n THEN orc.e ELSE Nil
    IN  [ls EXCEPT !.cb = Append(@, [id |-> pat.ID, from |-> 0, to |-> pos, ret |-> r]),
                   !.ncb = @ + 1,
                   !.ret = Nil]

\* A closure that reports the start offset of the occurrence as from.
ScanHandlerTrueStart(ls, pos, pat, orc) ==
    LET r == IF ls.ncb + 1 = orc.n THEN orc.e ELSE Nil
    IN  [ls EXCEPT !.cb = Append(@, [id |-> pat.ID, from |-> pos - pat.strlen,
                                     to |-> pos, ret |-> r]),
                   !.ncb = @ + 1,
                   !.ret = r]

\* The closure h of Scan: m(ps.ID, 0, pos), and m's error if it has one.
ScanHandler(ls, pos, pat, orc) ==
    LET r == IF ls.ncb + 1 = orc.n THEN orc.e ELSE Nil
    IN  [ls EXCEPT !.cb = Append(@, [id |-> pat.ID, from |-> 0, to |-> pos, ret |-> r]),
                   !.ncb = @ + 1,
                   !.ret = r]

\* matched(pos, *pat) for pattern index id.  ev is the history of these
\* invocations: which pattern was reported, and with which pos.
matched(ls, pos, id, pat, orc) ==
    LET l1 == [ls EXCEPT !.ev = Append(@, [k |-> id, pos |-> pos])]
    IN  IF ls.kind = "Search" THEN SearchHandler(l1, pos, pat, orc)
        ELSE ScanHandler(l1, pos, pat, orc)

\* Every pattern is compared with the text, the Caseless ones too.
NeedsVerifyAlways(pat) == TRUE

\* "if pat.Flags&Caseless > 0 { report } else { report if memcmp }".
NeedsVerify(pat) == ~HasFlag(pat.Flags, Caseless)

\* A test that never finds a mark and never sets one.
OnceCheckNoMark(ls, pat) == ls

\* A test-and-set keyed by the length of the pattern.
OnceCheckByLength(ls, pat) ==
    IF ls.useSlice
    THEN LET idx == pat.strlen \div WordBits
             bit == pat.strlen % WordBits
         IN  IF idx >= Len(ls.recordSlice) THEN [ls EXCEPT !.panic = TRUE]
             ELSE IF bit \in At(ls.recordSlice, idx) THEN [ls EXCEPT !.skip = TRUE]
             ELSE [ls EXCEPT !.recordSlice[idx + 1] = @ \cup {bit}]
    ELSE IF pat.strlen \in ls.recordMap.keys THEN [ls EXCEPT !.skip = TRUE]
         ELSE IF ls.recordMap.isNil THEN [ls EXCEPT !.panic = TRUE]
         ELSE [ls EXCEPT !.recordMap.keys = @ \cup {pat.strlen}]

\* The SingleMatch test-and-set; skip = "continue", panic = index out of
\* range or assignment to an entry of a nil map.
OnceCheck(ls, pat) ==
    IF ls.useSlice
    THEN LET idx == pat.ID \div WordBits
             bit == pat.ID % WordBits
         IN  IF idx >= Len(ls.recordSlice) THEN [ls EXCEPT !.panic = TRUE]
             ELSE IF bit \in At(ls.recordSlice, idx) THEN [ls EXCEPT !.skip = TRUE]
             ELSE [ls EXCEPT !.recordSlice[idx + 1] = @ \cup {bit}]
    ELSE IF pat.ID \in ls.recordMap.keys THEN [ls EXCEPT !.skip = TRUE]
         ELSE IF ls.recordMap.isNil THEN [ls EXCEPT !.panic = TRUE]
         ELSE [ls EXCEPT !.recordMap.keys = @ \cup {pat.ID}]

\* The body of "for _, id := range ac.outputTable[currentState]" for one id,
\* after byte i of text.
Report(pats, ls, id, i, orc) ==
    IF id >= Len(pats) THEN [ls EXCEPT !.panic = TRUE]
    ELSE
    LET pat == At(pats, id)
        l1 == IF HasFlag(pat.Flags, SingleMatch)
              THEN OnceCheck([ls EXCEPT !.skip = FALSE], pat)
              ELSE [ls EXCEPT !.skip = FALSE]
    IN  IF l1.panic \/ l1.skip THEN l1
        ELSE IF ~NeedsVerify(pat)
             THEN matched(l1, i + 1, id, pat, orc)
             ELSE LET from == i - pat.strlen + 1
                  IN  IF from < 0 \/ from > Len(l1.text)
                      THEN [l1 EXCEPT !.panic = TRUE]
                      ELSE IF memcmp(pat.Content,
                                     SubSeq(l1.text, from + 1, Len(l1.text)),
                                     pat.strlen)
                           THEN matched(l1, i + 1, id, pat, orc)
                           ELSE l1

RECURSIVE OutputLoop(_, _, _, _, _, _)
OutputLoop(pats, ids, j, ls, i, orc) ==
    IF j > Len(ids) \/ ls.panic \/ ls.ret # Nil THEN ls
    ELSE OutputLoop(pats, ids, j + 1, Report(pats, ls, ids[j], i, orc), i, orc)

\* The O(1) transition on byte b, with its defensive branch.
Transition(tt, asz, st, cur, b) ==
    LET idx == cur * asz + tt[b]
    IN  IF idx >= Len(st) THEN 0 ELSE At(st, idx)

\* One iteration of "for i, b := range text" on the locals cl of a call.
ByteStep(pats, tt, asz, st, out, cl, orc) ==
    LET i == cl.i
        cur == Transition(tt, asz, st, cl.currentState, At(cl.text, i))
        l0 == [cl EXCEPT !.currentState = cur, !.i = i + 1]
        ls == [kind |-> cl.kind, text |-> cl.text, useSlice |-> cl.useSlice,
               recordSlice |-> cl.recordSlice, recordMap |-> cl.recordMap,
               matches |-> cl.matches, cb |-> cl.cb, ev |-> cl.ev, ncb |-> 0,
               ret |-> Nil, skip |-> FALSE, panic |-> FALSE]
    IN  IF cur >= Len(out) THEN [l0 EXCEPT !.status = "panic"]
        ELSE LET r == OutputLoop(pats, At(out, cur), 1, ls, i, orc)
                 l1 == [l0 EXCEPT !.recordSlice = r.recordSlice,
                                  !.recordMap = r.recordMap,
                                  !.matches = r.matches,
                                  !.cb = r.cb,
                                  !.ev = r.ev]
             IN  IF r.panic THEN [l1 EXCEPT !.status = "panic"]
                 ELSE IF r.ret # Nil
                      THEN [l1 EXCEPT !.status = "ret", !.err = r.ret,
                                      !.result = <<>>, !.resultNil = TRUE]
                 ELSE IF i + 1 >= Len(cl.text)
                      THEN [l1 EXCEPT !.status = "ret", !.err = Nil,
                                      !.result = r.matches,
                                      !.resultNil = (cl.kind # "Search")]
                 ELSE l1

\* A prologue whose bit array has one word whatever the largest id.
NewCallOneWord(kind, text, mx, once) ==
    LET us == mx <= maxSliceSize
        c0 == [IdleCall EXCEPT
                 !.status = "run", !.kind = kind, !.text = text,
                 !.useSlice = us,
                 !.recordSlice = IF once /\ us THEN <<{}>> ELSE <<>>,
                 !.recordMap = [isNil |-> ~(once /\ ~us), keys |-> {}]]
    IN  IF Len(text) = 0
        THEN [c0 EXCEPT !.status = "ret", !.resultNil = (kind # "Search")]
        ELSE c0

\* The prologue of searchPatterns: the per-call dedup structure.
NewCall(kind, text, mx, once) ==
    LET us == mx <= maxSliceSize
        c0 == [IdleCall EXCEPT
                 !.status = "run", !.kind = kind, !.text = text,
                 !.useSlice = us,
                 !.recordSlice = IF once /\ us
                                 THEN [k \in 1 .. ((mx \div WordBits) + 1) |-> {}]
                                 ELSE <<>>,
                 !.recordMap = [isNil |-> ~(once /\ ~us), keys |-> {}]]
    IN  IF Len(text) = 0
        THEN [c0 EXCEPT !.status = "ret", !.resultNil = (kind # "Search")]
        ELSE c0

(***************************************************************************)
(* The state machine.                                                      *)
(* built is the number of patterns the last Build compiled (NotBuilt       *)
(* before the first Build); addRet is what the last AddPattern returned;   *)
(* passed holds, per pattern, the bytes of p.Content as they were when     *)
(* AddPattern was called.                                                  *)
(***************************************************************************)
NotBuilt == 0 - 1
\* The callers of Search and Scan.
CallIds == {1, 2}

Init ==
    /\ patterns = <<>>
    /\ translateTable = [b \in Byte |-> 0]
    /\ alphabetSize = 0
    /\ stateTable = <<>>
    /\ outputTable = <<>>
    /\ size = 0
    /\ maxID = 0
    /\ stateCount = 0
    /\ hasSingleMatch = FALSE
    /\ calls = [c \in CallIds |-> IdleCall]
    /\ built = NotBuilt
    /\ addRet = "none"
    /\ passed = <<>>

Running == \E c \in CallIds : calls[c].status = "run"

RECURSIVE TotalBytes(_)
TotalBytes(pats) ==
    IF pats = <<>> THEN 0 ELSE Len(Head(pats).Content) + TotalBytes(Tail(pats))

\* The bounds of the model on what is registered.
Room(p) == TotalBytes(patterns) + Len(p.Content) <= MaxTrieBytes
Small(p) == TotalBytes(patterns) + Len(p.Content) <= MaxPatBytes

\* The value AddPattern returns.
AddPatternResult(p) == Nil

\* A registration that discards the compiled tables.
AddPatternInvalidates(p) ==
    /\ ~Running
    /\ Room(p)
    /\ patterns' = Append(patterns, [Content |-> p.Content, ID |-> p.ID,
                                     Flags |-> p.Flags, strlen |-> Len(p.Content)])
    /\ hasSingleMatch' = (hasSingleMatch \/ HasFlag(p.Flags, SingleMatch))
    /\ size' = Len(patterns')
    /\ maxID' = IF p.ID > maxID THEN p.ID ELSE maxID
    /\ addRet' = Nil
    /\ passed' = Append(passed, p.Content)
    /\ calls' = [c \in CallIds |-> IdleCall]
    /\ stateTable' = <<>>
    /\ outputTable' = <<<<>>>>
    /\ UNCHANGED <<translateTable, alphabetSize, stateCount, built>>

\* AddPattern(p).  Registration and compilation are not run while a call is
\* in progress; the finished calls' records are dropped.
AddPattern(p) ==
    /\ ~Running
    /\ Room(p)
    /\ patterns' = Append(patterns, [Content |-> p.Content, ID |-> p.ID,
                                     Flags |-> p.Flags, strlen |-> Len(p.Content)])
    /\ hasSingleMatch' = (hasSingleMatch \/ HasFlag(p.Flags, SingleMatch))
    /\ size' = Len(patterns')
    /\ maxID' = IF p.ID > maxID THEN p.ID ELSE maxID
    /\ addRet' = AddPatternResult(p)
    /\ passed' = Append(passed, p.Content)
    /\ calls' = [c \in CallIds |-> IdleCall]
    /\ UNCHANGED <<translateTable, alphabetSize, stateTable, outputTable,
                   stateCount, built>>

\* Build(): initTranslateTable, then buildStateMachine under some visiting
\* order of the trie's edge maps (t and m range over one value each).
Build ==
    /\ ~Running
    /\ \E t \in {initTranslateTable(patterns, translateTable)} :
         \E ord \in BuildOrders(patterns, t.tt) :
           \E m \in {buildStateMachine(patterns, t.tt, t.size, ord)} :
               /\ translateTable' = t.tt
               /\ alphabetSize' = t.size
               /\ stateCount' = m.stateCount
               /\ outputTable' = m.outputTable
               /\ stateTable' = m.stateTable
    /\ built' = Len(patterns)
    /\ calls' = [c \in CallIds |-> IdleCall]
    /\ UNCHANGED <<patterns, size, maxID, hasSingleMatch, addRet, passed>>

\* A call that takes over the dedup structure of a call already made.
BeginShared(c, kind, text) ==
    /\ calls[c].status # "run"
    /\ calls' = [calls EXCEPT ![c] =
                   LET n == NewCall(kind, text, maxID, hasSingleMatch)
                       o == {d \in CallIds : d # c /\ calls[d].status # "idle"}
                   IN  IF o = {} THEN n
                       ELSE LET d == CHOOSE x \in o : TRUE
                            IN  [n EXCEPT !.recordSlice = calls[d].recordSlice,
                                          !.recordMap = calls[d].recordMap]]
    /\ UNCHANGED <<acVars, built, addRet, passed>>

\* Search(text) or Scan(text, m) is entered by caller c.
Begin(c, kind, text) ==
    /\ calls[c].status # "run"
    /\ calls' = [calls EXCEPT ![c] = NewCall(kind, text, maxID, hasSingleMatch)]
    /\ UNCHANGED <<acVars, built, addRet, passed>>

Oracles(kind) ==
    IF kind = "Scan"
    THEN {[n |-> 0, e |-> Nil]}
         \cup {[n |-> k, e |-> e] : k \in 1 .. Len(patterns), e \in Errors}
    ELSE {[n |-> 0, e |-> Nil]}

\* Call c consumes its next text byte.
Step(c) ==
    /\ calls[c].status = "run"
    /\ \E orc \in Oracles(calls[c].kind) :
         calls' = [calls EXCEPT ![c] =
                     ByteStep(patterns, translateTable, alphabetSize,
                              stateTable, outputTable, calls[c], orc)]
    /\ UNCHANGED <<acVars, built, addRet, passed>>

(***************************************************************************)
(* Inputs.                                                                 *)
(***************************************************************************)
\* The bytes 'A', 'a', 'b', '[' and '{'.
ByteA == UpperA
Bytea == UpperA + CaseGap
Byteb == Bytea + 1
ByteBracket == UpperZ + 1
ByteBrace == ByteBracket + CaseGap
Flags == {0, Caseless, SingleMatch, Caseless + SingleMatch}

SeqsOf(S, lo, hi) == UNION {[1 .. n -> S] : n \in lo .. hi}
ContentsOver(S) == SeqsOf(S, 1, MaxPatBytes)
TextsOver(S) == SeqsOf(S, 0, MaxTextLen)

PatternsOf(cs, ids, fs) ==
    {[Content |-> c, ID |-> i, Flags |-> f] : c \in cs, i \in ids, f \in fs}

\* Clients that register their patterns, build once and then make one call.
Register(cs, ids, fs) ==
    built = NotBuilt
    /\ \E p \in PatternsOf(cs, ids, fs) : Small(p) /\ AddPattern(p)

\* The same, the k-th registered pattern carrying the id k.
RegisterNext(cs, fs) ==
    built = NotBuilt
    /\ \E p \in PatternsOf(cs, {Len(patterns) + 1}, fs) : Small(p) /\ AddPattern(p)

BuildOnce == built = NotBuilt /\ Build

SearchCall(ts) ==
    built # NotBuilt /\ calls[1].status = "idle"
    /\ \E t \in ts : Begin(1, "Search", t)

ScanCall(ts) ==
    built # NotBuilt /\ calls[1].status = "idle"
    /\ \E t \in ts : Begin(1, "Scan", t)

\* Patterns without flags over 'A', 'a' and 'b'; texts over the same bytes.
Letters == {ByteA, Bytea, Byteb}

NextPlain ==
    \/ RegisterNext(ContentsOver(Letters), {0})
    \/ BuildOnce
    \/ SearchCall(TextsOver(Letters))
    \/ Step(1)
SpecPlain == Init /\ [][NextPlain]_vars

(***************************************************************************)
(* What the claims speak of.                                               *)
(***************************************************************************)
\* ASCII case folding, as the claims state it.
FoldByte(b) == IF b \in 65 .. 90 THEN b + 32 ELSE b
FoldSeq(w) == [j \in 1 .. Len(w) |-> FoldByte(w[j])]

\* The window of length l of text that ends at the 0-based index i.
HasWindow(text, i, l) == i - l + 1 >= 0 /\ i < Len(text)
WindowOf(text, i, l) == SubSeq(text, i - l + 2, i + 1)

ExactAt(pat, text, i) ==
    HasWindow(text, i, Len(pat.Content))
    /\ WindowOf(text, i, Len(pat.Content)) = pat.Content

FoldAt(pat, text, i) ==
    HasWindow(text, i, Len(pat.Content))
    /\ FoldSeq(WindowOf(text, i, Len(pat.Content))) = FoldSeq(pat.Content)

\* The occurrence that counts for a pattern: folded with Caseless, exact
\* without.
OccursAt(pat, text, i) ==
    IF HasFlag(pat.Flags, Caseless) THEN FoldAt(pat, text, i)
    ELSE ExactAt(pat, text, i)

PatIdx == 0 .. (Len(patterns) - 1)
TextIdx(text) == 0 .. (Len(text) - 1)

\* The events of a call that report pattern index k, and their positions.
EventsOf(cl, k) == {j \in 1 .. Len(cl.ev) : cl.ev[j].k = k}
PosOf(cl, k) == {cl.ev[j].pos : j \in EventsOf(cl, k)}
OncePerPos(cl, k) ==
    \A j1, j2 \in EventsOf(cl, k) : cl.ev[j1].pos = cl.ev[j2].pos => j1 = j2

Count(w, x) == Cardinality({j \in 1 .. Len(w) : w[j] = x})
IdsOfEvents(cl) == [j \in 1 .. Len(cl.ev) |-> At(patterns, cl.ev[j].k).ID]

Returned(c, kind) == calls[c].status = "ret" /\ calls[c].kind = kind

\* C1: with only unflagged, non-empty patterns registered, a returned Search
\* holds one event per pattern p and end index i where the text window equals
\* p's content byte for byte, no other event, and the list it returns is the
\* ids of those events (an id occurs as often as its patterns occur); a
\* window equal only after case folding gives no event.
C1_ExactOccurrences ==
    Returned(1, "Search") =>
        LET cl == calls[1]
        IN  /\ cl.err = Nil /\ ~cl.resultNil
            /\ \A k \in PatIdx :
                 /\ OncePerPos(cl, k)
                 /\ PosOf(cl, k) =
                      {i + 1 : i \in {x \in TextIdx(cl.text) :
                                        ExactAt(At(patterns, k), cl.text, x)}}
            /\ \A j \in 1 .. Len(cl.ev) : cl.ev[j].k \in PatIdx
            /\ cl.result = IdsOfEvents(cl)
            /\ \A id \in {At(patterns, k).ID : k \in PatIdx} :
                 Count(cl.result, id) =
                   Cardinality({<<k, i>> \in PatIdx \X TextIdx(cl.text) :
                                  /\ At(patterns, k).ID = id
                                  /\ ExactAt(At(patterns, k), cl.text, i)})

\* C1 witness: a returned Search whose text holds a window that equals a
\* pattern only after case folding, beside two exact occurrences.
C1_Witness ==
    /\ Returned(1, "Search")
    /\ Len(calls[1].result) >= 2
    /\ \E k \in PatIdx, i \in TextIdx(calls[1].text) :
         /\ FoldAt(At(patterns, k), calls[1].text, i)
         /\ ~ExactAt(At(patterns, k), calls[1].text, i)

\* Patterns with and without Caseless, none with SingleMatch, over 'A' and
\* '['; texts over 'a', '[' and '{' ('{' is '[' + 32, as 'a' is 'A' + 32).
NextFold ==
    \/ RegisterNext(ContentsOver({ByteA, ByteBracket}), {0, Caseless})
    \/ BuildOnce
    \/ SearchCall(TextsOver({Bytea, ByteBracket, ByteBrace}))
    \/ Step(1)
SpecFold == Init /\ [][NextFold]_vars

\* C2: for a Caseless pattern without SingleMatch, a returned Search holds
\* one event for every end index whose window equals the pattern's content
\* after folding A-Z to a-z on both sides, and no event of that pattern
\* elsewhere; the events reach the returned list.
C2_CaselessOccurrences ==
    Returned(1, "Search") =>
        LET cl == calls[1]
        IN  /\ cl.result = IdsOfEvents(cl)
            /\ \A k \in PatIdx :
                 (HasFlag(At(patterns, k).Flags, Caseless)
                  /\ ~HasFlag(At(patterns, k).Flags, SingleMatch)) =>
                     /\ OncePerPos(cl, k)
                     /\ PosOf(cl, k) =
                          {i + 1 : i \in {x \in TextIdx(cl.text) :
                                            FoldAt(At(patterns, k), cl.text, x)}}

\* C2 witness: the Caseless pattern "[A" reported, and its id returned, for
\* a window that holds the letter in the other case.
C2_Witness ==
    /\ Returned(1, "Search")
    /\ \E k \in PatIdx, i \in TextIdx(calls[1].text) :
         /\ HasFlag(At(patterns, k).Flags, Caseless)
         /\ At(patterns, k).Content = <<ByteBracket, ByteA>>
         /\ FoldAt(At(patterns, k), calls[1].text, i)
         /\ ~ExactAt(At(patterns, k), calls[1].text, i)
         /\ (i + 1) \in PosOf(calls[1], k)
         /\ At(patterns, k).ID \in {calls[1].result[j] : j \in 1 .. Len(calls[1].result)}

\* The strings the trie spells: the prefixes of the folded patterns.
Prefixes ==
    {<<>>} \cup
    UNION {{SubSeq(FoldSeq(At(patterns, k).Content), 1, n) :
               n \in 0 .. Len(At(patterns, k).Content)} : k \in PatIdx}

IsSuffix(u, w) ==
    Len(u) <= Len(w) /\ SubSeq(w, Len(w) - Len(u) + 1, Len(w)) = u

\* The state the compiled table reaches from the root on the bytes of w.
RECURSIVE RunTable(_, _, _)
RunTable(cur, w, j) ==
    IF j > Len(w) THEN cur
    ELSE RunTable(Transition(translateTable, alphabetSize, stateTable, cur, w[j]),
                  w, j + 1)

StateOf(w) == RunTable(0, w, 1)

SeqSet(w) == {w[j] : j \in 1 .. Len(w)}
NoDup(w) == Cardinality(SeqSet(w)) = Len(w)

\* C5: when Build has returned, every state is the state of one prefix of a
\* folded pattern and its output set holds, each once, exactly the indices of
\* the patterns whose folded content is a suffix of that prefix; and a
\* returned Search holds, for every pattern, one event per occurrence, also
\* when several occurrences end at one index or overlap.
C5_OutputSets ==
    /\ (built # NotBuilt /\ calls[1].status = "idle") =>
        /\ Len(outputTable) = stateCount
        /\ {StateOf(w) : w \in Prefixes} = 0 .. (stateCount - 1)
        /\ \A w1, w2 \in Prefixes : StateOf(w1) = StateOf(w2) => w1 = w2
        /\ \A w \in Prefixes :
             /\ NoDup(At(outputTable, StateOf(w)))
             /\ SeqSet(At(outputTable, StateOf(w))) =
                  {k \in PatIdx : IsSuffix(FoldSeq(At(patterns, k).Content), w)}
    /\ Returned(1, "Search") =>
        \A k \in PatIdx :
            /\ OncePerPos(calls[1], k)
            /\ PosOf(calls[1], k) =
                 {i + 1 : i \in {x \in TextIdx(calls[1].text) :
                                   OccursAt(At(patterns, k), calls[1].text, x)}}

\* C5 witness: a returned Search that reported, at one end index, a pattern
\* and another pattern that is a proper suffix of it, and reported the
\* shorter one at an earlier index too.
C5_Witness ==
    /\ Returned(1, "Search")
    /\ \E k1, k2 \in PatIdx :
         /\ Len(At(patterns, k1).Content) < Len(At(patterns, k2).Content)
         /\ \E p \in PosOf(calls[1], k1) : p \in PosOf(calls[1], k2)
         /\ Cardinality(PosOf(calls[1], k1)) >= 2

\* Patterns "a", "aa", ... with any flags, texts over 'A' and 'a', Search
\* and Scan, callbacks that may fail.
BothCases == {ByteA, Bytea}

NextFlags ==
    \/ RegisterNext(ContentsOver({Bytea}), Flags)
    \/ BuildOnce
    \/ SearchCall(TextsOver(BothCases))
    \/ ScanCall(TextsOver(BothCases))
    \/ Step(1)
SpecFlags == Init /\ [][NextFlags]_vars

OccursIn(pat, text) == \E i \in TextIdx(text) : OccursAt(pat, text, i)

CbIds(cl) == [j \in 1 .. Len(cl.cb) |-> cl.cb[j].id]

UniqueID(k) == \A k2 \in PatIdx : At(patterns, k2).ID = At(patterns, k).ID => k2 = k

\* C3: at every point of a Search or Scan call a SingleMatch pattern has at
\* most one event, and none when it does not occur in the text; the events
\* are what the call hands out (the list of Search, the callbacks of Scan).
C3_AtMostOnce ==
    LET cl == calls[1]
    IN  /\ \A k \in PatIdx :
             HasFlag(At(patterns, k).Flags, SingleMatch) =>
                 /\ Cardinality(EventsOf(cl, k)) <= 1
                 /\ ~OccursIn(At(patterns, k), cl.text) => EventsOf(cl, k) = {}
                 /\ (UniqueID(k) /\ Returned(1, "Search")) =>
                        Count(cl.result, At(patterns, k).ID) <= 1
                 /\ (UniqueID(k) /\ cl.kind = "Scan") =>
                        Count(CbIds(cl), At(patterns, k).ID) <= 1
        /\ Returned(1, "Search") => cl.result = IdsOfEvents(cl)
        /\ cl.kind = "Scan" => CbIds(cl) = IdsOfEvents(cl)

\* C3 witness: a returned Scan whose text holds a SingleMatch pattern at two
\* end indices and which reported it once.
C3_Witness ==
    /\ Returned(1, "Scan")
    /\ \E k \in PatIdx :
         /\ HasFlag(At(patterns, k).Flags, SingleMatch)
         /\ Cardinality({i \in TextIdx(calls[1].text) :
                           OccursAt(At(patterns, k), calls[1].text, i)}) >= 2
         /\ Cardinality(EventsOf(calls[1], k)) = 1
         /\ Count(CbIds(calls[1]), At(patterns, k).ID) = 1

\* The end index of the first occurrence of pat in text.
FirstOccurrence(pat, text) == Min({i \in TextIdx(text) : OccursAt(pat, text, i)})

\* C4: a SingleMatch pattern whose id no other pattern carries and which
\* occurs in the text (exactly, or up to case with Caseless) is reported by
\* Search exactly once, at its first occurrence.
C4_ReportedAtFirstOccurrence ==
    Returned(1, "Search") =>
        \A k \in PatIdx :
            (/\ HasFlag(At(patterns, k).Flags, SingleMatch)
             /\ UniqueID(k)
             /\ OccursIn(At(patterns, k), calls[1].text)) =>
                 /\ Count(calls[1].result, At(patterns, k).ID) = 1
                 /\ PosOf(calls[1], k) =
                      {FirstOccurrence(At(patterns, k), calls[1].text) + 1}

NoFail == [n |-> 0, e |-> Nil]

\* A call of the given kind on text, alone on the automaton as it stands and
\* with a callback that never fails, after its first n bytes.
RECURSIVE RunWith(_, _, _, _, _, _)
RunWith(pats, mx, once, kind, text, n) ==
    IF n = 0 THEN NewCall(kind, text, mx, once)
    ELSE LET cl == RunWith(pats, mx, once, kind, text, n - 1)
         IN  IF cl.status # "run" THEN cl
             ELSE ByteStep(pats, translateTable, alphabetSize, stateTable,
                           outputTable, cl, NoFail)

RunAlone(kind, text, n) == RunWith(patterns, maxID, hasSingleMatch, kind, text, n)

FullPass(kind, text) == RunAlone(kind, text, Len(text))

Delivered(cl) == [j \in 1 .. Len(cl.cb) |-> <<cl.cb[j].id, cl.cb[j].from, cl.cb[j].to>>]

IsPrefix(u, w) == Len(u) <= Len(w) /\ SubSeq(w, 1, Len(u)) = u

FailedAt(cl) == {j \in 1 .. Len(cl.cb) : cl.cb[j].ret # Nil}

\* C6: a callback error ends the pass: it is the last invocation of the call,
\* the call has returned that very error without consuming another byte, and
\* what was delivered is a prefix of what the uninterrupted pass delivers;
\* a Scan without a failing callback returns nil after delivering all of it,
\* and Search never returns an error.
C6_CallbackErrorStops ==
    LET cl == calls[1]
    IN  /\ cl.kind = "Scan" =>
             /\ IsPrefix(Delivered(cl), Delivered(FullPass("Scan", cl.text)))
             /\ FailedAt(cl) # {} =>
                    /\ FailedAt(cl) = {Len(cl.cb)}
                    /\ cl.status = "ret"
                    /\ cl.err = cl.cb[Len(cl.cb)].ret
                    /\ cl.i = cl.cb[Len(cl.cb)].to
             /\ (FailedAt(cl) = {} /\ cl.status = "ret") =>
                    /\ cl.err = Nil
                    /\ Delivered(cl) = Delivered(FullPass("Scan", cl.text))
             /\ cl.err # Nil => FailedAt(cl) # {}
        /\ Returned(1, "Search") => (cl.err = Nil /\ ~cl.resultNil)

\* C6 witness: a Scan that returned the callback's error after an invocation
\* which the uninterrupted pass follows with another one at the same byte and
\* one at a later byte.
C6_Witness ==
    LET cl == calls[1]
        full == Delivered(FullPass("Scan", cl.text))
    IN  /\ Returned(1, "Scan")
        /\ cl.err \in Errors
        /\ Len(full) >= Len(cl.cb) + 2
        /\ full[Len(cl.cb) + 1][3] = cl.cb[Len(cl.cb)].to
        /\ full[Len(full)][3] > cl.cb[Len(cl.cb)].to

\* C7: every callback invocation of Scan has from = 0 and to = i + 1 for the
\* index i of the byte at which the occurrence it reports ends, with the id
\* of the reported pattern; to never decreases from one invocation to the
\* next.
C7_FromZeroToEnd ==
    LET cl == calls[1]
    IN  cl.kind = "Scan" =>
            /\ Len(cl.cb) = Len(cl.ev)
            /\ \A j \in 1 .. Len(cl.cb) :
                 LET pat == At(patterns, cl.ev[j].k)
                 IN  /\ cl.cb[j].from = 0
                     /\ cl.cb[j].to = cl.ev[j].pos
                     /\ cl.cb[j].id = pat.ID
                     /\ cl.cb[j].to - 1 \in TextIdx(cl.text)
                     /\ cl.cb[j].to <= cl.i
                     /\ OccursAt(pat, cl.text, cl.cb[j].to - 1)
            /\ \A j1, j2 \in 1 .. Len(cl.cb) : j1 <= j2 => cl.cb[j1].to <= cl.cb[j2].to

\* C7 witness: a returned Scan with invocations at two different end
\* offsets, one of them for an occurrence that does not start at offset 0.
C7_Witness ==
    LET cl == calls[1]
    IN  /\ Returned(1, "Scan")
        /\ \E j1, j2 \in 1 .. Len(cl.cb) :
             /\ cl.cb[j1].to < cl.cb[j2].to
             /\ cl.cb[j2].to - At(patterns, cl.ev[j2].k).strlen > 0
             /\ cl.cb[j2].from = 0

\* Two callers on one built automaton, their steps interleaved in any order:
\* caller 1 calls Search, caller 2 calls Scan with a callback that never
\* fails.  Patterns "a", "aa", ... with any flags, texts "", "a", "aa", ...

StepOk(c) ==
    /\ calls[c].status = "run"
    /\ calls' = [calls EXCEPT ![c] =
                   ByteStep(patterns, translateTable, alphabetSize,
                            stateTable, outputTable, calls[c], NoFail)]
    /\ UNCHANGED <<acVars, built, addRet, passed>>

CallBy(c, kind, ts) ==
    built # NotBuilt /\ calls[c].status = "idle"
    /\ \E t \in ts : Begin(c, kind, t)

NextConc ==
    \/ RegisterNext(ContentsOver({Bytea}), Flags)
    \/ BuildOnce
    \/ CallBy(1, "Search", TextsOver({Bytea}))
    \/ CallBy(2, "Scan", TextsOver({Bytea}))
    \/ StepOk(1)
    \/ StepOk(2)
SpecConc == Init /\ [][NextConc]_vars

\* C8: the list a Search returns is, element by element, the ids a Scan of
\* the same text hands to a callback that never fails; a pattern without
\* SingleMatch contributes its id once per occurrence, one with SingleMatch
\* at most once.
C8_SearchEqualsScan ==
    (/\ Returned(1, "Search") /\ Returned(2, "Scan")
     /\ calls[1].text = calls[2].text) =>
        /\ calls[2].err = Nil /\ calls[1].err = Nil
        /\ calls[1].result = CbIds(calls[2])
        /\ calls[1].ev = calls[2].ev
        /\ calls[1].result = IdsOfEvents(calls[1])
        /\ \A k \in PatIdx :
             IF HasFlag(At(patterns, k).Flags, SingleMatch)
             THEN Cardinality(EventsOf(calls[1], k)) <= 1
             ELSE Cardinality(EventsOf(calls[1], k)) =
                    Cardinality({i \in TextIdx(calls[1].text) :
                                   OccursAt(At(patterns, k), calls[1].text, i)})

\* C8 witness: a Search and a Scan of one text have both returned, the list
\* holding two ids and one of them twice.
C8_Witness ==
    /\ Returned(1, "Search") /\ Returned(2, "Scan")
    /\ calls[1].text = calls[2].text
    /\ Len(calls[2].cb) >= 3
    /\ \E j1, j2, j3 \in 1 .. Len(calls[1].result) :
         /\ j1 < j2
         /\ calls[1].result[j1] = calls[1].result[j2]
         /\ calls[1].result[j3] # calls[1].result[j1]

\* A step taken by a call that is under way.
CallStep == \E c \in CallIds : calls[c].status = "run" /\ calls'[c] # calls[c]

\* C9: however the steps of two calls are interleaved, each call's locals,
\* events and results are at every step those of the same call run alone
\* (the dedup marks of one call are not seen by the other), and no step of a
\* call changes a field of the automaton.
C9_CallsIndependent ==
    /\ [](\A c \in {1, 2} :
             calls[c].status # "idle" =>
                 calls[c] = RunAlone(calls[c].kind, calls[c].text, calls[c].i))
    /\ [][CallStep => UNCHANGED acVars]_vars

\* C9 witness: both calls are under way at once, each has consumed a byte,
\* and each has reported and marked the same SingleMatch pattern.
C9_Witness ==
    /\ calls[1].status = "run" /\ calls[2].status = "run"
    /\ calls[1].i >= 1 /\ calls[2].i >= 1
    /\ \E k \in PatIdx :
         /\ HasFlag(At(patterns, k).Flags, SingleMatch)
         /\ EventsOf(calls[1], k) # {}
         /\ EventsOf(calls[2], k) # {}
         /\ calls[1].recordSlice # <<{}>>
         /\ calls[2].recordSlice # <<{}>>

\* Clients that go on registering after Build, and build again: patterns
\* "a", "aa", ... with and without SingleMatch, ids below and beyond
\* maxSliceSize, texts over 'A' and 'a'.  AddPattern
\* and Build drop the records of the calls made, and a call leaves the
\* automaton as it found it, so they are taken from the states with no call
\* on record: the same states are reached.
BigID == maxSliceSize + 1

RegisterAnyTime(cs, ids, fs) ==
    calls[1].status = "idle"
    /\ \E p \in PatternsOf(cs, ids, fs) : Small(p) /\ AddPattern(p)

BuildAnyTime == calls[1].status = "idle" /\ Build

NextLate ==
    \/ RegisterAnyTime(ContentsOver({Bytea}), {1, BigID}, {0, SingleMatch})
    \/ BuildAnyTime
    \/ CallBy(1, "Search", TextsOver(BothCases))
    \/ CallBy(1, "Scan", TextsOver(BothCases))
    \/ StepOk(1)
SpecLate == Init /\ [][NextLate]_vars

MaxOf(S) == IF S = {} THEN 0 ELSE CHOOSE x \in S : \A y \in S : y <= x

\* The patterns the last Build compiled, and the call cl as it would stand had
\* no pattern been registered since.
BuiltPatterns == SubSeq(patterns, 1, built)

AsBuilt(cl) ==
    RunWith(BuiltPatterns,
            MaxOf({BuiltPatterns[j].ID : j \in 1 .. built}),
            \E j \in 1 .. built : HasFlag(BuiltPatterns[j].Flags, SingleMatch),
            cl.kind, cl.text, cl.i)

Outcome(cl) ==
    <<cl.status, cl.i, cl.currentState, cl.ev, cl.matches, cl.cb, cl.err,
      cl.result, cl.resultNil>>

\* C10: AddPattern returns nil; a step that is not a Build leaves the
\* translation table, the alphabet size, the transition table and the output
\* table of a built automaton as they are; and a call made after patterns
\* were registered on a built automaton has, at every step, the events and
\* results it has without them.
C10_AddPatternAfterBuild ==
    /\ [](addRet \in {"none", Nil})
    /\ [](calls[1].status # "idle" => Outcome(calls[1]) = Outcome(AsBuilt(calls[1])))
    /\ [][(built # NotBuilt /\ built' = built /\ patterns' = patterns) \/
          (built # NotBuilt /\ built' = built /\ Len(patterns') = Len(patterns) + 1) =>
            UNCHANGED <<translateTable, alphabetSize, stateTable, outputTable>>]_vars

\* C10 witness: a call has returned an event on an automaton built from one
\* pattern, after a second pattern with the same content, SingleMatch and an
\* id beyond maxSliceSize was registered.
C10_Witness ==
    /\ built = 1 /\ Len(patterns) = 2
    /\ patterns[2].Content = patterns[1].Content
    /\ patterns[2].ID = BigID
    /\ HasFlag(patterns[2].Flags, SingleMatch)
    /\ ~HasFlag(patterns[1].Flags, SingleMatch)
    /\ Returned(1, "Search")
    /\ Len(calls[1].result) >= 2
    /\ addRet = Nil

(***************************************************************************)
(* The caller's buffers.                                                   *)
(***************************************************************************)
\* The caller writes b to byte j of the buffer it passed as the Content of
\* its k-th pattern.  AddPattern appends p by value: the slice header kept in
\* ac.patterns shares its array with the caller's buffer, so the write lands
\* in the Content of the registered pattern; strlen and the compiled tables
\* stay as they are.
CallerWrite(k, j, b) ==
    /\ ~Running
    /\ k \in 1 .. Len(patterns)
    /\ j \in 1 .. Len(patterns[k].Content)
    /\ patterns' = [patterns EXCEPT ![k].Content[j] = b]
    /\ calls' = [c \in CallIds |-> IdleCall]
    /\ UNCHANGED <<translateTable, alphabetSize, stateTable, outputTable, size,
                   maxID, stateCount, hasSingleMatch, built, addRet, passed>>

\* Clients that write to a buffer they have registered, before or after
\* Build: unflagged patterns and texts over 'a' and 'b'.
LowerTwo == {Bytea, Byteb}

WriteAnyTime(bs) ==
    calls[1].status = "idle"
    /\ \E k \in 1 .. Len(patterns) :
         \E j \in 1 .. Len(patterns[k].Content) :
           \E b \in bs \ {patterns[k].Content[j]} : CallerWrite(k, j, b)

NextAlias ==
    \/ RegisterNext(ContentsOver(LowerTwo), {0})
    \/ BuildOnce
    \/ WriteAnyTime(LowerTwo)
    \/ SearchCall(TextsOver(LowerTwo))
    \/ Step(1)
SpecAlias == Init /\ [][NextAlias]_vars

\* The k-th pattern (0-based) with the bytes the caller passed for it.
AsPassed(k) == [At(patterns, k) EXCEPT !.Content = At(passed, k)]

\* C11: the bytes of every registered pattern are those the caller passed to
\* AddPattern, whatever the caller wrote to its buffer since, and a returned
\* Search holds one event per occurrence of those bytes and no other.
C11_OwnsPatternBytes ==
    /\ \A k \in PatIdx : At(patterns, k).Content = At(passed, k)
    /\ Returned(1, "Search") =>
         \A k \in PatIdx :
             PosOf(calls[1], k) =
               {i + 1 : i \in {x \in TextIdx(calls[1].text) :
                                 ExactAt(AsPassed(k), calls[1].text, x)}}

(***************************************************************************)
(* Compilation alone.                                                      *)
(***************************************************************************)
\* Clients that register unflagged patterns over 'a' and 'b', up to
\* MaxTrieBytes bytes in all, and build, once or again.
RegisterLarge(cs, fs) ==
    built = NotBuilt
    /\ \E p \in PatternsOf(cs, {Len(patterns) + 1}, fs) : AddPattern(p)

NextBuild ==
    \/ RegisterLarge(SeqsOf(LowerTwo, 1, MaxTrieBytes), {0})
    \/ BuildAnyTime
SpecBuild == Init /\ [][NextBuild]_vars

\* The tables Build leaves behind when it is run now, one set of tables per
\* order in which it can visit the edges.
Tables(t, m) ==
    [translateTable |-> t.tt, alphabetSize |-> t.size,
     stateCount |-> m.stateCount, outputTable |-> m.outputTable,
     stateTable |-> m.stateTable]

AllBuilds ==
    UNION {{Tables(t, m) :
              m \in {buildStateMachine(patterns, t.tt, t.size, ord) :
                        ord \in BuildOrders(patterns, t.tt)}} :
           t \in {initTranslateTable(patterns, translateTable)}}

\* Search(text) on the tables m, after its first n bytes.
StepOn(m, cl) ==
    IF cl.status # "run" THEN cl
    ELSE ByteStep(patterns, m.translateTable, m.alphabetSize,
                  m.stateTable, m.outputTable, cl, NoFail)

RECURSIVE RunOn(_, _, _)
RunOn(m, text, n) ==
    IF n = 0 THEN NewCall("Search", text, maxID, hasSingleMatch)
    ELSE StepOn(m, RunOn(m, text, n - 1))

SearchOn(m, text) == RunOn(m, text, Len(text))

Probes == TextsOver(LowerTwo)

\* The tables that stand.
Standing ==
    [translateTable |-> translateTable, alphabetSize |-> alphabetSize,
     stateCount |-> stateCount, outputTable |-> outputTable,
     stateTable |-> stateTable]

\* C12: on a built automaton, a Build run again, in whatever order it visits
\* the edges of the trie, leaves the tables that stand, or tables on which
\* Search has, for every text, the events and the result it has on the
\* tables that stand.
C12_RebuildSameMatches ==
    built # NotBuilt =>
        \A m \in AllBuilds :
            \/ m = Standing
            \/ \A text \in Probes :
                 LET a == SearchOn(m, text)
                     b == SearchOn(Standing, text)
                 IN  /\ a.ev = b.ev
                     /\ a.result = b.result
                     /\ a.status = "ret" /\ b.status = "ret"

\* C12 witness: a built automaton whose trie can be visited in more than one
\* order, and a text on which Search reports three patterns at one index.
C12_Witness ==
    /\ built # NotBuilt
    /\ Cardinality(AllBuilds) = 1
    /\ Cardinality(BuildOrders(patterns, translateTable)) >= 2
    /\ \E text \in Probes :
         \E i \in TextIdx(text) :
           Cardinality({j \in 1 .. Len(SearchOn(Standing, text).ev) :
                          SearchOn(Standing, text).ev[j].pos = i + 1}) >= 3

(***************************************************************************)
(* Calls in any lifecycle state.                                           *)
(***************************************************************************)
\* Clients that call Search and Scan whether or not Build has been called:
\* patterns "a", "aa", ... with and without SingleMatch, texts "", "a", ...
CallAnyTime(c, kind, ts) ==
    calls[c].status = "idle" /\ \E t \in ts : Begin(c, kind, t)

NextUnbuilt ==
    \/ RegisterAnyTime(ContentsOver({Bytea}), {1}, {0, SingleMatch})
    \/ BuildAnyTime
    \/ CallAnyTime(1, "Search", TextsOver({Bytea}))
    \/ CallAnyTime(1, "Scan", TextsOver({Bytea}))
    \/ Step(1)
SpecUnbuilt == Init /\ [][NextUnbuilt]_vars

\* C13: no call of Search or Scan ends in a run-time panic, in any lifecycle
\* state of the automaton; a returned Search holds a list and a nil error,
\* and an error returned by Scan is the error of its callback.
C13_NeverFails ==
    LET cl == calls[1]
    IN  /\ cl.status # "panic"
        /\ Returned(1, "Search") => (cl.err = Nil /\ ~cl.resultNil)
        /\ (Returned(1, "Scan") /\ cl.err # Nil) =>
               (FailedAt(cl) = {Len(cl.cb)} /\ cl.err = cl.cb[Len(cl.cb)].ret)

(***************************************************************************)
(* The compiled tables.                                                    *)
(***************************************************************************)
\* C14: after Build with no pattern registered the automaton has one state,
\* the root, with an empty output set, an alphabet of size 1 and a table
\* whose one entry is the root; a Search stays in the root, reports nothing
\* and returns the empty list with a nil error, for the empty text too.
C14_NoPatterns ==
    (built = 0 /\ Len(patterns) = 0) =>
        /\ stateCount = 1
        /\ outputTable = <<<<>>>>
        /\ alphabetSize = 1
        /\ stateTable = <<0>>
        /\ \A b \in Byte : translateTable[b] = 0
        /\ calls[1].status \in {"idle", "run", "ret"}
        /\ calls[1].currentState = 0
        /\ calls[1].ev = <<>>
        /\ Returned(1, "Search") =>
             /\ calls[1].result = <<>>
             /\ ~calls[1].resultNil
             /\ calls[1].err = Nil

\* C14 witness: Search has returned from a text of full length on an
\* automaton built without patterns.
C14_Witness ==
    /\ built = 0 /\ Len(patterns) = 0
    /\ Returned(1, "Search")
    /\ Len(calls[1].text) = MaxTextLen
    /\ calls[1].i = MaxTextLen

States == 0 .. (stateCount - 1)
Symbols == 0 .. (alphabetSize - 1)

\* The index searchPatterns computes for the next byte of a call under way.
NextIndex(cl) == cl.currentState * alphabetSize + translateTable[At(cl.text, cl.i)]

\* C15: when Build has returned, the transition table has stateCount *
\* alphabetSize entries, each of them a state, and the output table one entry
\* per state; the current state of every call is a state, and the index a
\* call computes for its next byte lies within the table (the defensive
\* branch is not taken).
C15_TableTotal ==
    /\ (built # NotBuilt /\ calls[1].status = "idle") =>
        /\ stateCount >= 1 /\ alphabetSize >= 1
        /\ Len(stateTable) = stateCount * alphabetSize
        /\ \A s \in States : \A c \in Symbols :
             At(stateTable, s * alphabetSize + c) \in States
        /\ Len(outputTable) = stateCount
        /\ \A b \in Byte : translateTable[b] \in Symbols
    /\ (built # NotBuilt /\ calls[1].status # "idle") =>
        /\ calls[1].currentState \in States
        /\ calls[1].status = "run" =>
             /\ NextIndex(calls[1]) < Len(stateTable)
             /\ NextIndex(calls[1]) >= 0

\* C15 witness: a call under way on an automaton of four states and three
\* symbols is in the last state and indexes the last entry of the table.
C15_Witness ==
    /\ built # NotBuilt
    /\ stateCount = MaxPatBytes + 1
    /\ alphabetSize = 3
    /\ calls[1].status = "run"
    /\ calls[1].currentState = stateCount - 1
    /\ NextIndex(calls[1]) = Len(stateTable) - 1

\* The trie of the patterns, and the state it reaches from the root on the
\* bytes of a prefix w of a folded pattern.
BuiltTrie == BuildTrie(BuiltPatterns, translateTable).trie

RECURSIVE TrieWalk(_, _, _, _)
TrieWalk(trie, w, j, s) ==
    IF j > Len(w) THEN s
    ELSE TrieWalk(trie, w, j + 1, trie[s][translateTable[w[j]]])

\* The longest suffix of u, among those of length below n, that is in the
\* set P of the prefixes of the folded patterns.
LongestBelow(P, u, n) ==
    CHOOSE v \in P :
        /\ IsSuffix(v, u) /\ Len(v) < n
        /\ \A v2 \in P : (IsSuffix(v2, u) /\ Len(v2) < n) => Len(v2) <= Len(v)

LongestIn(P, u) == LongestBelow(P, u, Len(u) + 1)

\* The failure link as the claims define it: the longest proper suffix.
ProperFail(P, w) == LongestBelow(P, w, Len(w))

\* Goto with failure walking, on prefixes: the child on y of the first of w,
\* ProperFail(w), ... that has one, or the root.
RECURSIVE WalkSpec(_, _, _)
WalkSpec(P, w, y) ==
    IF Append(w, y) \in P THEN Append(w, y)
    ELSE IF w = <<>> THEN <<>>
    ELSE WalkSpec(P, ProperFail(P, w), y)

\* The folded bytes that occur in a pattern.
FoldedBytes ==
    UNION {{FoldByte(At(patterns, k).Content[j]) :
               j \in 1 .. Len(At(patterns, k).Content)} : k \in PatIdx}

TextSoFar(cl) == FoldSeq(SubSeq(cl.text, 1, cl.i))

\* C16: when Build has returned, the states are the trie states of the
\* prefixes of the folded patterns, and for every such prefix w and every
\* byte b the table leads from the state of w to the child on b of the first
\* of w and its ever shorter longest proper suffixes that has such a child,
\* or else to the root; a byte that occurs in no pattern leads every state to
\* the root; and the current state of a call that has consumed text[0..i] is
\* the state of the longest suffix of the folded text[0..i] that is a prefix
\* of a folded pattern.
C16_GotoWithFailure ==
    /\ (built # NotBuilt /\ calls[1].status = "idle") =>
         \A trie \in {BuiltTrie} : \A P \in {Prefixes} :
             /\ {TrieWalk(trie, w, 1, 0) : w \in P} = States
             /\ \A w \in P :
                  /\ StateOf(w) = TrieWalk(trie, w, 1, 0)
                  /\ \A b \in Byte :
                       Transition(translateTable, alphabetSize, stateTable,
                                  TrieWalk(trie, w, 1, 0), b) =
                         TrieWalk(trie, WalkSpec(P, w, FoldByte(b)), 1, 0)
             /\ \A b \in Byte :
                  FoldByte(b) \notin FoldedBytes =>
                      \A s \in States :
                          Transition(translateTable, alphabetSize, stateTable, s, b) = 0
    /\ (built # NotBuilt /\ calls[1].status # "idle") =>
         \A P \in {Prefixes} :
             calls[1].currentState = StateOf(LongestIn(P, TextSoFar(calls[1])))

\* C16 witness: a call whose last step left a state that has no child on the
\* byte read, for the child of its longest proper suffix, which is not the
\* root.
C16_Witness ==
    /\ built # NotBuilt
    /\ calls[1].status # "idle"
    /\ calls[1].i >= 2
    /\ LET u == TextSoFar(calls[1])
           w == LongestIn(Prefixes, SubSeq(u, 1, Len(u) - 1))
       IN  /\ w # <<>>
           /\ ProperFail(Prefixes, w) # <<>>
           /\ Append(w, u[Len(u)]) \notin Prefixes
           /\ LongestIn(Prefixes, u) = Append(ProperFail(Prefixes, w), u[Len(u)])
           /\ calls[1].currentState # 0

(***************************************************************************)
(* The order of the failure-link construction.                             *)
(***************************************************************************)
\* The runs of buildStateMachine on the patterns, one per visiting order.
BuildRuns ==
    UNION {{buildStateMachine(patterns, t.tt, t.size, ord) :
              ord \in BuildOrders(patterns, t.tt)} :
           t \in {initTranslateTable(patterns, translateTable)}}

\* The depth of state s in the trie.
Parent(trie, s) ==
    CHOOSE r \in DOMAIN trie : \E c \in DOMAIN trie[r] : trie[r][c] = s

RECURSIVE Depth(_, _)
Depth(trie, s) == IF s = 0 THEN 0 ELSE 1 + Depth(trie, Parent(trie, s))

LogIdx(log, op, s) == {j \in 1 .. Len(log) : log[j].op = op /\ log[j].s = s}

Dequeued(log) == SelectSeq(log, LAMBDA e : e.op = "dequeue")

\* C17: in every run of the failure-link construction, whatever the order in
\* which the edges of a state are visited, the states are dequeued in
\* non-decreasing depth; every state but the root is enqueued once, given its
\* failure link once and dequeued once; and when the output set of f is
\* appended to that of s, f has its final failure link and the set read is
\* the final output set of f, which no later merge changes.
C17_BreadthFirstMerge ==
    built # NotBuilt =>
        \A m \in BuildRuns :
          \A log \in {m.log} :
            /\ m.outputTable = outputTable
            /\ \A deq \in {Dequeued(log)} :
                 \A d \in {[j \in 1 .. Len(deq) |-> Depth(m.trie, deq[j].s)]} :
                    \A j \in 1 .. (Len(deq) - 1) : d[j] <= d[j + 1]
            /\ \A s \in 1 .. (m.stateCount - 1) :
                 /\ Cardinality(LogIdx(log, "enqueue", s)) = 1
                 /\ Cardinality(LogIdx(log, "link", s)) = 1
                 /\ Cardinality(LogIdx(log, "dequeue", s)) = 1
                 /\ Cardinality(LogIdx(log, "merge", s)) <= 1
            /\ \A j \in 1 .. Len(log) :
                 /\ log[j].s \in 1 .. (m.stateCount - 1)
                 /\ log[j].op = "link" => log[j].f = At(m.failure, log[j].s)
                 /\ log[j].op = "merge" =>
                      /\ log[j].f = At(m.failure, log[j].s)
                      /\ log[j].read = At(m.outputTable, log[j].f)
                      /\ log[j].f # 0 =>
                           \E j0 \in LogIdx(log, "link", log[j].f) : j0 < j
                      /\ \A j2 \in (j + 1) .. Len(log) :
                           log[j2].op = "merge" => log[j2].s # log[j].f

\* C17 witness: a built automaton whose edges can be visited in several
\* orders, with a run in which a merge reads an output set that an earlier
\* merge had extended.
C17_Witness ==
    /\ built # NotBuilt
    /\ Cardinality(BuildRuns) >= 2
    /\ \E m \in BuildRuns :
         \E j1, j2 \in 1 .. Len(m.log) :
           /\ j1 < j2
           /\ m.log[j1].op = "merge" /\ m.log[j1].read # <<>>
           /\ m.log[j2].op = "merge" /\ m.log[j2].f = m.log[j1].s

(***************************************************************************)
(* Shared ids.                                                             *)
(***************************************************************************)
\* Clients whose patterns "a", "aa", ... share the ids 1 and 2, with and
\* without SingleMatch; texts over 'A' and 'a'; callbacks that never fail.
NextShared ==
    \/ Register(ContentsOver({Bytea}), {1, 2}, {0, SingleMatch})
    \/ BuildOnce
    \/ CallBy(1, "Search", TextsOver(BothCases))
    \/ CallBy(1, "Scan", TextsOver(BothCases))
    \/ StepOk(1)
SpecShared == Init /\ [][NextShared]_vars

\* The ids marked in the dedup structure of a call.
Marked(cl) ==
    IF cl.useSlice
    THEN UNION {{(w - 1) * WordBits + b : b \in cl.recordSlice[w]} :
                  w \in 1 .. Len(cl.recordSlice)}
    ELSE cl.recordMap.keys

\* The SingleMatch patterns that carry the id x, and the end indices below n
\* at which one of them occurs up to case (where the automaton meets it).
OncePatterns(x) ==
    {k \in PatIdx : At(patterns, k).ID = x /\ HasFlag(At(patterns, k).Flags, SingleMatch)}

Hits(x, text, n) ==
    {i \in 0 .. (n - 1) : \E k \in OncePatterns(x) : FoldAt(At(patterns, k), text, i)}

\* C18: at every step of a call, the marks are the ids of the SingleMatch
\* patterns met so far; the SingleMatch patterns of one id have one event
\* between them at most, and none after the byte at which the id was marked;
\* a pattern without SingleMatch has one event per occurrence so far,
\* whatever is marked.
C18_DedupById ==
    LET cl == calls[1]
    IN  cl.status # "idle" =>
          /\ Marked(cl) = {x \in {At(patterns, k).ID : k \in PatIdx} :
                             Hits(x, cl.text, cl.i) # {}}
          /\ \A x \in {At(patterns, k).ID : k \in PatIdx} :
               /\ Cardinality(UNION {EventsOf(cl, k) : k \in OncePatterns(x)}) <= 1
               /\ \A k \in OncePatterns(x) :
                    PosOf(cl, k) \subseteq
                      (IF Hits(x, cl.text, cl.i) = {} THEN {}
                       ELSE {Min(Hits(x, cl.text, cl.i)) + 1})
          /\ \A k \in PatIdx :
               ~HasFlag(At(patterns, k).Flags, SingleMatch) =>
                   /\ OncePerPos(cl, k)
                   /\ PosOf(cl, k) =
                        {i + 1 : i \in {x \in 0 .. (cl.i - 1) :
                                          OccursAt(At(patterns, k), cl.text, x)}}

\* C18 witness: three patterns of one id, two of them with SingleMatch, occur
\* twice in the text of a returned call: one flagged pattern was reported
\* once, the other never, the unflagged one twice.
C18_Witness ==
    /\ calls[1].status = "ret"
    /\ \E k1, k2, k3 \in PatIdx :
         /\ k1 # k3
         /\ At(patterns, k1).ID = At(patterns, k2).ID
         /\ At(patterns, k3).ID = At(patterns, k2).ID
         /\ k1 \in OncePatterns(At(patterns, k2).ID)
         /\ k3 \in OncePatterns(At(patterns, k2).ID)
         /\ ~HasFlag(At(patterns, k2).Flags, SingleMatch)
         /\ Cardinality(EventsOf(calls[1], k1)) = 1
         /\ EventsOf(calls[1], k3) = {}
         /\ OccursIn(At(patterns, k3), calls[1].text)
         /\ Cardinality(EventsOf(calls[1], k2)) = 2


(***************************************************************************)
(* C19: the translation table.                                             *)
(***************************************************************************)
\* Byte 0, the ends of the uppercase range, the byte after 'Z' and 'a'.
EdgeBytes == {0, UpperA, UpperZ, UpperZ + 1, Bytea}

NextTable ==
    \/ RegisterAnyTime(ContentsOver(EdgeBytes), {1}, {0})
    \/ BuildAnyTime
SpecTable == Init /\ [][NextTable]_vars

\* The bytes of the compiled patterns, and the same bytes folded.
BuiltBytes ==
    UNION {{BuiltPatterns[k].Content[j] : j \in 1 .. Len(BuiltPatterns[k].Content)} :
             k \in 1 .. built}
BuiltFolded == {FoldByte(b) : b \in BuiltBytes}
NonUpper == Byte \ (65 .. 90)

\* C19: when Build has returned, no byte of a compiled pattern has symbol 0;
\* the distinct folded pattern bytes have distinct symbols in
\* 1 .. alphabetSize - 1; each of 'A'..'Z' has the symbol of its lowercase
\* letter; a byte whose folded value is in no pattern has symbol 0; and
\* alphabetSize is the number of distinct folded pattern bytes plus one, which
\* is at most 231 because no folded byte is an uppercase letter.
C19_TranslateTable ==
    built # NotBuilt =>
        \A F \in {BuiltFolded} :
            /\ \A b \in BuiltBytes : translateTable[b] # 0
            /\ \A y \in F : translateTable[y] \in 1 .. (alphabetSize - 1)
            /\ \A y1, y2 \in F :
                 translateTable[y1] = translateTable[y2] => y1 = y2
            /\ \A b \in 65 .. 90 : translateTable[b] = translateTable[b + 32]
            /\ \A b \in Byte : FoldByte(b) \notin F => translateTable[b] = 0
            /\ alphabetSize = Cardinality(F) + 1
            /\ F \subseteq NonUpper
            /\ Cardinality(NonUpper) + 1 = 231
            /\ alphabetSize <= 231

\* C19 witness: a table built from an uppercase letter, byte 0 and the byte
\* after 'Z', which has four symbols.
C19_Witness ==
    /\ built # NotBuilt
    /\ {0, UpperA, UpperZ + 1} \subseteq BuiltBytes
    /\ alphabetSize = 4
    /\ translateTable[Bytea] # 0


(***************************************************************************)
(* C20: the indices computed while reporting.                              *)
(***************************************************************************)
\* Ids in the first and in the second word of the bit array, and an id
\* beyond maxSliceSize; patterns are registered before and after Build.
NextRange ==
    \/ RegisterAnyTime(ContentsOver({Bytea}), {1, WordBits + 1, BigID},
                       {0, SingleMatch})
    \/ BuildAnyTime
    \/ CallBy(1, "Search", TextsOver({Bytea}))
    \/ CallBy(1, "Scan", TextsOver({Bytea}))
    \/ StepOk(1)
SpecRange == Init /\ [][NextRange]_vars

\* The index of the byte a call consumed last.
LastByte(cl) == cl.i - 1

\* C20: on a built automaton no call fails on an index, and after every byte
\* i a call consumes, the current state lies no deeper in the trie than the
\* number of bytes consumed, and every pattern index k in the output set of
\* the current state is an index into the pattern list, has a window start
\* i - length(k) + 1 >= 0, and, when k carries SingleMatch, has a word
\* id / 64 inside the bit array of the call, or a map when the largest
\* registered id is beyond maxSliceSize; patterns registered since Build
\* included.
C20_IndicesInRange ==
    built # NotBuilt =>
        \A cl \in {calls[1]} :
            /\ cl.status # "panic"
            /\ (cl.status # "idle" /\ cl.i >= 1) =>
                 /\ cl.currentState < Len(outputTable)
                 /\ Depth(BuiltTrie, cl.currentState) <= cl.i
                 /\ \A j \in 1 .. Len(At(outputTable, cl.currentState)) :
                      \A k \in {At(outputTable, cl.currentState)[j]} :
                        /\ k >= 0 /\ k < Len(patterns)
                        /\ LastByte(cl) - At(patterns, k).strlen + 1 >= 0
                        /\ At(patterns, k).strlen = Len(At(patterns, k).Content)
                        /\ HasFlag(At(patterns, k).Flags, SingleMatch) =>
                             IF cl.useSlice
                             THEN At(patterns, k).ID \div 64 < Len(cl.recordSlice)
                             ELSE ~cl.recordMap.isNil

\* C20 witness: a call on the bit-array path stands in a state that reports
\* a SingleMatch pattern whose id lies in the second word, on an automaton
\* that has had a pattern registered since Build.
C20_Witness ==
    /\ built # NotBuilt /\ built < Len(patterns)
    /\ calls[1].status = "run" /\ calls[1].i >= 1
    /\ calls[1].useSlice
    /\ \E j \in 1 .. Len(At(outputTable, calls[1].currentState)) :
         LET pat == At(patterns, At(outputTable, calls[1].currentState)[j])
         IN  /\ HasFlag(pat.Flags, SingleMatch)
             /\ pat.ID \div 64 = 1
             /\ pat.strlen = calls[1].i

=============================================================================
